---- MODULE Spec2Model ----
(***************************************************************************)
(* Model of dailylogfile.DailyLogFileHandler: a logging.FileHandler whose  *)
(* file name embeds the date, with a bz2 compression sweep and an age-off  *)
(* sweep run at construction and in _rollover.                             *)
(*                                                                         *)
(* Dates are proleptic ordinals (dt.date.toordinal, shifted so that day 1  *)
(* is EpochYmd); st_ctime is the day the directory entry was created.      *)
(* A path is a sequence of components, a component a sequence of tokens.   *)
(***************************************************************************)
EXTENDS Integers, Sequences, FiniteSets, TLC

\* ---------------------------------------------------------------- bounds
PastDays == 2                   \* days before the first call on which files were left behind
MaxTicks == 1                   \* midnights that pass
MaxEmits == 1
MaxThreshold == 1
MaxFaults == 1

\* ------------------------------------------------------------- constants
None == -1                      \* Python None for the two optional thresholds
FirstDay == PastDays + 1       \* the date when the model starts
MaxDay == FirstDay + MaxTicks
Days == 1..MaxDay

\* A token of a file name.  Literal tokens carry their text, a date token
\* carries what strftime('%Y-%m-%d') renders.
Tok(s) == [s |-> s, y |-> 0, m |-> 0, d |-> 0]
DateTok(ymd) == [s |-> "%Y-%m-%d", y |-> ymd[1], m |-> ymd[2], d |-> ymd[3]]

IsLeap(y) == (y % 4 = 0 /\ y % 100 # 0) \/ y % 400 = 0
DaysInMonth(y, m) ==
    IF m = 2 THEN (IF IsLeap(y) THEN 29 ELSE 28)
    ELSE IF m \in {4, 6, 9, 11} THEN 30 ELSE 31
NextYmd(ymd) ==
    IF ymd[3] < DaysInMonth(ymd[1], ymd[2]) THEN <<ymd[1], ymd[2], ymd[3] + 1>>
    ELSE IF ymd[2] < 12 THEN <<ymd[1], ymd[2] + 1, 1>>
    ELSE <<ymd[1] + 1, 1, 1>>
EpochYmd == <<2024, 12, 30>>    \* the calendar date of day 1
RECURSIVE Ymd(_)
Ymd(n) == IF n <= 1 THEN EpochYmd ELSE NextYmd(Ymd(n - 1))

\* variant of strftime: the format has monthly granularity ('%Y-%m')
strftimeMonthly(day) == DateTok(<<Ymd(day)[1], Ymd(day)[2], 0>>)
\* date.strftime(date_format) with the default date_format '%Y-%m-%d'
strftime(day) == DateTok(Ymd(day))

\* ------------------------------------------------------------ pathlib
SuffixToks == {Tok(".log"), Tok(".bz2")}
Last(q) == q[Len(q)]
Front(q) == SubSeq(q, 1, Len(q) - 1)
IsAbsolute(p) == Len(p) > 0 /\ p[1] = <<Tok("/")>>

\* PurePath.suffix of the final component ('' is the empty sequence)
suffix(p) ==
    LET nm == Last(p)
    IN  IF Len(nm) > 1 /\ Last(nm) \in SuffixToks THEN <<Last(nm)>> ELSE <<>>
\* PurePath.with_suffix(sfx): replace the final suffix, or append if none
with_suffix(p, sfx) ==
    LET nm == Last(p)
        stem == IF suffix(p) = <<>> THEN nm ELSE Front(nm)
    IN  Append(Front(p), stem \o sfx)
\* PurePath.parent
parent(p) == Front(p)

IsPrefixOf(a, b) == Len(a) <= Len(b) /\ SubSeq(b, 1, Len(a)) = a
IsSuffixOf(a, b) == Len(a) <= Len(b) /\ SubSeq(b, Len(b) - Len(a) + 1, Len(b)) = a
\* fnmatch of a name against the pattern  {head}*{tail}
Matches(nm, head, tail) ==
    /\ Len(nm) >= Len(head) + Len(tail)
    /\ IsPrefixOf(head, nm)
    /\ IsSuffixOf(tail, nm)

\* ---------------------------------------------------------------- state
VARIABLES
    clock,                \* dt.date.today()
    fs,                   \* the directory tree: path -> file
    fds,                  \* open file descriptors of the process
    logfile,              \* self.logfile
    compress_after_days,  \* self.compress_after_days
    max_history_days,     \* self.max_history_days
    handler,              \* "none" | "constructing" | "ready"
    current_day,          \* self._current_day
    baseFilename,         \* self.baseFilename
    stream,               \* self.stream
    pc,                   \* position of the running call
    op,                   \* the running call ("init", "rollover"), "-" when it ended
    today,                \* local `today` of the running sweep
    pending,              \* files the running glob has still to yield
    file,                 \* local `file` of the running sweep
    err,                  \* exception the last call raised to its caller
    emitted,              \* number of emit calls so far
    snap,                 \* observation: disk and date when the running sweep began
    made,                 \* observation: the outputs the running sweepCompress has written
    globbed,              \* observation: what the running sweep's glob enumerated
    cyc,                  \* observation: close/open cycles done for this _current_day
    faults                \* number of I/O operations that have failed so far

vars == <<clock, fs, fds, logfile, compress_after_days, max_history_days,
          handler, current_day, baseFilename, stream, pc, op, today,
          pending, file, err, emitted, snap, globbed, made, cyc, faults>>

cfgvars == <<logfile, compress_after_days, max_history_days>>
obj == <<current_day, baseFilename, stream>>
locals == <<today, pending, file>>
ctl == <<pc, op, err, handler>>

\* ------------------------------------------------------------ the disk
\* A file: st_ctime as a day, and its bytes.  Plain bytes are the records
\* (each record is the day it was emitted); a bz2 stream is the magic, the
\* compressed records and, once the writer was closed, the end-of-stream mark.
PlainBytes(recs) == [bz |-> FALSE, body |-> recs, eos |-> FALSE]
\* bz2 compression of a whole input / of what was copied before a failure
Bz2Compress(bytes) == [bz |-> TRUE, body |-> bytes.body, eos |-> TRUE]
Bz2Truncated(bytes, n) == [bz |-> TRUE, body |-> SubSeq(bytes.body, 1, n), eos |-> FALSE]
IsBz2Complete(bytes) == bytes.bz /\ bytes.eos
Bz2Decompress(bytes) == PlainBytes(bytes.body)

Exists(p) == p \in DOMAIN fs
WriteFile(disk, p, f) == [q \in DOMAIN disk \cup {p} |-> IF q = p THEN f ELSE disk[q]]
RemoveFile(disk, p) == [q \in DOMAIN disk \ {p} |-> disk[q]]
\* open(p, 'a'): creates an empty file when absent
Touch(disk, p, day) ==
    IF p \in DOMAIN disk THEN disk
    ELSE WriteFile(disk, p, [ctime |-> day, bytes |-> PlainBytes(<<>>)])
\* lowest unused descriptor number
NewFd == CHOOSE n \in 1..(Cardinality(fds) + 1) : \A d \in fds : d.fd # n
\* descriptors after unlink(p): an open descriptor keeps the unlinked inode
Orphaned(table, p) ==
    {IF d.path = p THEN [d EXCEPT !.orphan = TRUE] ELSE d : d \in table}

\* ------------------------------------------------------ the handler
Truthy(x) == x # None /\ x # 0          \* Python truth value of int | None
NoStream == [fd |-> 0, closed |-> TRUE]  \* self.stream is None
NoErr == [kind |-> "none", file |-> <<>>, today |-> 0]
Exc(kind) == [kind |-> kind, file |-> file, today |-> today]
NoSnap == [fs |-> <<>>, day |-> 0]

_logfile_prefix == with_suffix(logfile, <<>>)
_logfile_suffix == IF suffix(logfile) = <<>> THEN <<Tok(".log")>> ELSE suffix(logfile)

\* f'{prefix}_{d}{suffix}' for a given _current_day
FileNameFor(day) ==
    Append(Front(_logfile_prefix),
           Last(_logfile_prefix) \o <<Tok("_"), strftime(day)>> \o _logfile_suffix)
_file_name == FileNameFor(current_day)

\* self.logfile.parent.glob(f'{prefix}*{tail}'): the pattern keeps the
\* directory part of the prefix and is resolved below logfile.parent
GlobRaises == IsAbsolute(_logfile_prefix)
GlobDir == parent(logfile) \o parent(_logfile_prefix)
Glob(tail) ==
    {p \in DOMAIN fs :
        /\ parent(p) = GlobDir
        /\ Matches(Last(p), Last(_logfile_prefix), tail)}
CompressPattern == _logfile_suffix
AgeoffPattern ==
    IF Truthy(compress_after_days) THEN _logfile_suffix \o <<Tok(".bz2")>>
    ELSE _logfile_suffix
\* (today - creation).days
AgeDays(day, p) == day - fs[p].ctime
outfile(f) == with_suffix(f, suffix(f) \o <<Tok(".bz2")>>)

\* ----------------------------------------------------------------- Init
Logfiles ==
    { << <<Tok("app"), Tok(".log")>> >>,                      \* 'app.log'
      << <<Tok("logs")>>, <<Tok("app")>> >>,                  \* 'logs/app'
      << <<Tok("/")>>, <<Tok("app"), Tok(".log")>> >> }       \* '/app.log'
Thresholds == {None} \cup (0..MaxThreshold)
\* files found beside the log files when the model starts, all created on
\* day 1: another program's log, the file an earlier run of the handler
\* wrote on day 1, and a plain and a compressed log of an earlier installation
PreFiles(lf) ==
    { [path |-> Append(parent(lf), <<Tok("other"), Tok(".log")>>),
       bytes |-> PlainBytes(<<>>)],
      [path |-> FileNameFor(1), bytes |-> PlainBytes(<<1>>)],
      [path |-> Append(parent(lf), <<Tok("app"), Tok("_"), Tok("old"), Tok(".log")>>),
       bytes |-> PlainBytes(<<>>)],
      [path |-> Append(parent(lf), <<Tok("app"), Tok("_"), Tok("older"), Tok(".log"), Tok(".bz2")>>),
       bytes |-> Bz2Compress(PlainBytes(<<>>))] }
RECURSIVE Populate(_, _, _)
Populate(disk, fls, day) ==
    IF fls = {} THEN disk
    ELSE LET f == CHOOSE g \in fls : TRUE
         IN  Populate(WriteFile(disk, f.path, [ctime |-> day, bytes |-> f.bytes]),
                      fls \ {f}, day)

Init ==
    /\ clock = FirstDay
    /\ logfile \in Logfiles
    /\ compress_after_days \in Thresholds
    /\ max_history_days \in Thresholds
    /\ fs \in {<<>>, Populate(<<>>, PreFiles(logfile), 1)}
    /\ fds = {}
    /\ handler = "none"
    /\ current_day = 0
    /\ baseFilename = <<>>
    /\ stream = NoStream
    /\ pc = "idle"
    /\ op = "-"
    /\ today = 0
    /\ pending = {}
    /\ file = <<>>
    /\ err = NoErr
    /\ emitted = 0
    /\ snap = NoSnap
    /\ made = {}
    /\ globbed = {}
    /\ cyc = 0
    /\ faults = 0

\* ------------------------------------------------------- environment
\* midnight passes: between calls, or inside a call between two of its
\* readings of the date (lines 42/93, 62 and 79).  A call lasts less than a
\* day: at most one midnight passes inside it.
Midnight ==
    /\ \/ pc = "idle"
       \/ pc \in {"cmp_begin", "age_begin"} /\ clock = current_day
    /\ clock' = clock + 1
    /\ UNCHANGED <<fs, fds, cfgvars, obj, ctl, locals, emitted, snap, globbed, made, cyc, faults>>
Tick ==
    /\ clock < MaxDay
    /\ Midnight

\* something goes wrong: an I/O operation fails, or the process is killed
Fault ==
    /\ faults < MaxFaults
    /\ faults' = faults + 1

\* the process is gone: descriptors are released, the handler object no
\* longer exists, the disk stays
ProcessGone ==
    /\ fds' = {}
    /\ handler' = "none"
    /\ current_day' = 0
    /\ baseFilename' = <<>>
    /\ stream' = NoStream
    /\ pc' = "idle"
    /\ op' = "-"
    /\ today' = 0
    /\ pending' = {}
    /\ file' = <<>>
    /\ err' = NoErr
    /\ snap' = NoSnap
    /\ made' = {}
    /\ globbed' = {}
    /\ cyc' = 0
    /\ UNCHANGED <<clock, fs, cfgvars, emitted>>

\* the process exits between two calls and a new one starts
Restart ==
    /\ handler # "none"
    /\ pc = "idle"
    /\ ProcessGone
    /\ UNCHANGED faults

\* the process is killed in the middle of __init__ or _rollover
Crash ==
    /\ pc # "idle"
    /\ Fault
    /\ ProcessGone

\* --------------------------------------------------- leaving a call
\* the running call returns normally; its locals are gone
Return ==
    /\ pc' = "idle"
    /\ op' = "-"
    /\ handler' = "ready"
    /\ err' = NoErr
    /\ today' = 0
    /\ pending' = {}
    /\ file' = <<>>
    /\ snap' = NoSnap
    /\ made' = {}
    /\ globbed' = {}

\* an exception leaves the running call: nothing in the class catches it.
\* Out of __init__ no handler object is returned.
Raise(e) ==
    /\ pc' = "idle"
    /\ op' = "-"
    /\ err' = e
    /\ handler' = IF op = "init" THEN "none" ELSE handler
    /\ today' = 0
    /\ pending' = {}
    /\ file' = <<>>
    /\ snap' = NoSnap
    /\ made' = {}
    /\ globbed' = {}
\* an I/O operation fails and raises
Fail(e) ==
    /\ Fault
    /\ Raise(e)
\* the half-built object of a failed __init__ is dropped with its stream
Unwind ==
    IF op = "init"
    THEN stream' = NoStream /\ fds' = {} /\ current_day' = 0 /\ baseFilename' = <<>>
    ELSE UNCHANGED <<stream, fds, current_day, baseFilename>>
\* variant of Goto: the compression sweep is skipped after the open
GotoSkipsCompress(next) ==
    /\ UNCHANGED faults
    /\ pc' = (IF next = "cmp_begin" THEN "age_begin" ELSE next)
    /\ UNCHANGED <<op, err, handler>>
\* the running call goes on to its next statement
Goto(next) ==
    /\ UNCHANGED faults
    /\ pc' = next
    /\ UNCHANGED <<op, err, handler>>

\* ------------------------------------------------ FileHandler._open
\* open(path, 'a') succeeded: the file exists, a descriptor is held
OpenStream(path) ==
    /\ fs' = Touch(fs, path, clock)
    /\ fds' = fds \cup {[fd |-> NewFd, path |-> path, orphan |-> FALSE]}
    /\ stream' = [fd |-> NewFd, closed |-> FALSE]

\* variant of CloseStream: the old stream is forgotten but never closed
CloseStreamLeaks ==
    /\ fds' = fds
    /\ stream' = [stream EXCEPT !.closed = TRUE]
\* stream.close(): the descriptor is released whether or not the flush failed
CloseStream ==
    /\ fds' = {d \in fds : d.fd # stream.fd}
    /\ stream' = [stream EXCEPT !.closed = TRUE]

\* ------------------------------------------------------- __init__
\* lines 38-45
Construct ==
    /\ pc = "idle"
    /\ handler = "none"
    /\ \/ /\ current_day' = clock
          /\ baseFilename' = FileNameFor(clock)
          /\ OpenStream(FileNameFor(clock))
          /\ handler' = "constructing"
          /\ op' = "init"
          /\ pc' = "cmp_begin"
          /\ err' = NoErr
          /\ UNCHANGED faults
       \/ /\ Fault
          /\ err' = Exc("open")
          /\ UNCHANGED <<fs, fds, obj, handler, op, pc>>
    /\ UNCHANGED <<clock, cfgvars, locals, emitted, snap, globbed, made, cyc>>

\* ------------------------------------------------------- _rollover
\* variant of SameDay: the guard never holds
SameDayNever(new_day) == new_day # new_day
\* the guard of line 94
SameDay(new_day) == new_day = current_day

\* lines 93-97
Rollover ==
    /\ pc = "idle"
    /\ handler = "ready"
    /\ op' = "rollover"
    /\ err' = NoErr
    /\ LET new_day == clock
       IN  IF SameDay(new_day)
           THEN UNCHANGED <<current_day, pc, cyc>>
           ELSE /\ current_day' = new_day
                /\ cyc' = 0
                /\ pc' = "roll_close"
    /\ UNCHANGED <<clock, fs, fds, cfgvars, handler, baseFilename, stream,
                   locals, emitted, snap, globbed, made, faults>>

\* lines 98-99
RollClose ==
    /\ pc = "roll_close"
    /\ IF stream.fd # 0
       THEN /\ CloseStream
            /\ \/ /\ Goto("roll_open")
                  /\ UNCHANGED <<locals, snap, globbed, made>>
               \/ Fail(Exc("close"))
       ELSE /\ Goto("roll_open")
            /\ UNCHANGED <<fds, stream, locals, snap, globbed, made>>
    /\ UNCHANGED <<clock, fs, cfgvars, current_day, baseFilename, emitted, cyc>>

\* lines 100-101
RollOpen ==
    /\ pc = "roll_open"
    /\ baseFilename' = _file_name
    /\ \/ /\ OpenStream(_file_name)
          /\ cyc' = cyc + 1
          /\ Goto("cmp_begin")
          /\ UNCHANGED <<locals, snap, globbed, made>>
       \/ /\ Fail(Exc("open"))
          /\ UNCHANGED <<fs, fds, stream, cyc>>
    /\ UNCHANGED <<clock, cfgvars, current_day, emitted>>

\* ------------------------------------------- _compress_old_logfiles
\* lines 60-64: the disabled check, today, and the glob
CompressBegin ==
    /\ pc = "cmp_begin"
    /\ IF ~Truthy(compress_after_days)
       THEN /\ Goto("age_begin")
            /\ snap' = [fs |-> fs, day |-> clock]
            /\ UNCHANGED made
            /\ UNCHANGED <<fds, obj, locals, globbed>>
       ELSE IF GlobRaises
            THEN /\ Raise(Exc("glob"))
                 /\ Unwind
                 /\ UNCHANGED faults
            ELSE /\ today' = clock
                 /\ pending' = Glob(CompressPattern)
                 /\ globbed' = Glob(CompressPattern)
                 /\ snap' = [fs |-> fs, day |-> clock]
                 /\ UNCHANGED made
                 /\ Goto("cmp_loop")
                 /\ UNCHANGED <<fds, obj, file>>
    /\ UNCHANGED <<clock, fs, cfgvars, emitted, cyc>>

\* variant of TooYoungToCompress: the age is not looked at
TooYoungNever(f) == AgeDays(today, f) # AgeDays(today, f)
\* variant of TooYoungToCompress: a file exactly at the threshold is compressed
TooYoungStrict(f) == AgeDays(today, f) < compress_after_days
\* line 66: files this young are skipped
TooYoungToCompress(f) == AgeDays(today, f) <= compress_after_days

\* lines 64-67: the next file of the glob, its st_ctime, the age test
CompressLoop ==
    /\ pc = "cmp_loop"
    /\ IF pending = {}
       THEN /\ Goto("age_begin")
            /\ UNCHANGED <<fds, obj, locals, snap, globbed, made>>
       ELSE \E f \in pending :
            \/ /\ pending' = pending \ {f}
               /\ file' = f
               /\ Goto(IF TooYoungToCompress(f) THEN "cmp_loop" ELSE "cmp_copy")
               /\ UNCHANGED <<fds, obj, today, snap, globbed, made>>
            \/ /\ Fail([Exc("stat") EXCEPT !.file = f])
               /\ Unwind
    /\ UNCHANGED <<clock, fs, cfgvars, emitted, cyc>>

\* variant of CopyFailed: the source is unlinked although the copy failed
CopyFailedUnlinks(n) ==
    RemoveFile(WriteFile(fs, outfile(file),
                         [ctime |-> clock, bytes |-> Bz2Truncated(fs[file].bytes, n)]),
               file)
\* the disk after the copy of lines 68-70 stopped with an error after n
\* records: the source is kept, the output holds an unterminated stream
CopyFailed(n) ==
    WriteFile(fs, outfile(file),
              [ctime |-> IF Exists(outfile(file)) THEN fs[outfile(file)].ctime ELSE clock,
               bytes |-> Bz2Truncated(fs[file].bytes, n)])
\* the disk after the copy of lines 68-70 completed and the output was closed
CopyDone ==
    WriteFile(fs, outfile(file),
              [ctime |-> IF Exists(outfile(file)) THEN fs[outfile(file)].ctime ELSE clock,
               bytes |-> Bz2Compress(fs[file].bytes)])

\* lines 68-70: open both files, copy through the compressor, close both
CompressCopy ==
    /\ pc = "cmp_copy"
    /\ \/ /\ fs' = CopyDone
          /\ made' = made \cup {outfile(file)}
          /\ Goto("cmp_unlink")
          /\ UNCHANGED <<fds, obj, locals, snap, globbed>>
       \/ /\ UNCHANGED fs                      \* an open() failed
          /\ Fail(Exc("copy"))
          /\ Unwind
       \/ /\ \E n \in 0..Len(fs[file].bytes.body) : fs' = CopyFailed(n)
          /\ Fail(Exc("copy"))
          /\ Unwind
    /\ UNCHANGED <<clock, cfgvars, emitted, cyc>>

\* line 71
CompressUnlink ==
    /\ pc = "cmp_unlink"
    /\ \/ /\ fs' = RemoveFile(fs, file)
          /\ fds' = Orphaned(fds, file)
          /\ Goto("cmp_loop")
          /\ UNCHANGED <<obj, locals, snap, globbed, made>>
       \/ /\ UNCHANGED fs
          /\ Fail(Exc("unlink"))
          /\ Unwind
    /\ UNCHANGED <<clock, cfgvars, emitted, cyc>>

\* --------------------------------------------------- _handle_ageoff
\* lines 77-84
AgeoffBegin ==
    /\ pc = "age_begin"
    /\ IF ~Truthy(max_history_days)
       THEN /\ Goto("ret")
            /\ snap' = [fs |-> fs, day |-> clock]
            /\ UNCHANGED made
            /\ today' = 0
            /\ pending' = {}
            /\ file' = <<>>
            /\ globbed' = {}
            /\ UNCHANGED <<fds, obj>>
       ELSE IF GlobRaises
            THEN /\ Raise(Exc("glob"))
                 /\ Unwind
                 /\ UNCHANGED faults
            ELSE /\ today' = clock
                 /\ pending' = Glob(AgeoffPattern)
                 /\ globbed' = Glob(AgeoffPattern)
                 /\ snap' = [fs |-> fs, day |-> clock]
                 /\ UNCHANGED made
                 /\ file' = <<>>
                 /\ Goto("age_loop")
                 /\ UNCHANGED <<fds, obj>>
    /\ UNCHANGED <<clock, fs, cfgvars, emitted, cyc>>

\* line 86: files this old are removed
TooOld(f) == AgeDays(today, f) > max_history_days

\* lines 84-87
AgeoffLoop ==
    /\ pc = "age_loop"
    /\ IF pending = {}
       THEN /\ Goto("ret")
            /\ UNCHANGED <<fs, fds, obj, locals, snap, globbed, made>>
       ELSE \E f \in pending :
            \/ /\ pending' = pending \ {f}
               /\ file' = f
               /\ Goto("age_loop")
               /\ IF TooOld(f)
                  THEN /\ fs' = RemoveFile(fs, f)
                       /\ fds' = Orphaned(fds, f)
                  ELSE UNCHANGED <<fs, fds>>
               /\ UNCHANGED <<obj, today, snap, globbed, made>>
            \/ /\ Fail([Exc("ageoff_stat") EXCEPT !.file = f])
               /\ Unwind
               /\ UNCHANGED fs
            \/ /\ TooOld(f)
               /\ Fail([Exc("ageoff_unlink") EXCEPT !.file = f])
               /\ Unwind
               /\ UNCHANGED fs
    /\ UNCHANGED <<clock, cfgvars, emitted, cyc>>

\* __init__ or _rollover falls off its end
Finish ==
    /\ pc = "ret"
    /\ Return
    /\ UNCHANGED <<clock, fs, fds, cfgvars, obj, emitted, cyc, faults>>

\* ------------------------------- inherited from logging.FileHandler
\* StreamHandler.emit on an open stream: the record reaches the file the
\* descriptor was opened on, unless that file has been unlinked since
WriteRecord(disk, table) ==
    LET ds == {d \in table : d.fd = stream'.fd /\ ~d.orphan}
    IN  IF stream'.closed \/ ds = {} THEN disk
        ELSE LET d == CHOOSE e \in ds : TRUE
             IN  [disk EXCEPT ![d.path].bytes.body = Append(@, clock)]

\* FileHandler.emit: reopen if the stream is None, then StreamHandler.emit;
\* an exception while writing goes to handleError, not to the caller
Emit ==
    /\ pc = "idle"
    /\ handler = "ready"
    /\ emitted < MaxEmits
    /\ emitted' = emitted + 1
    /\ op' = "-"
    /\ err' = NoErr
    /\ IF stream.fd = 0
       THEN \/ /\ fds' = fds \cup {[fd |-> NewFd, path |-> baseFilename, orphan |-> FALSE]}
               /\ stream' = [fd |-> NewFd, closed |-> FALSE]
               /\ fs' = WriteRecord(Touch(fs, baseFilename, clock), fds')
               /\ UNCHANGED faults
            \/ /\ Fault
               /\ UNCHANGED <<fs, fds, stream>>
       ELSE /\ UNCHANGED <<fds, stream, faults>>
            /\ fs' = WriteRecord(fs, fds)
    /\ UNCHANGED <<clock, cfgvars, handler, current_day, baseFilename, pc,
                   locals, snap, globbed, made, cyc>>

\* FileHandler.close: flush, close, and forget the stream
Close ==
    /\ pc = "idle"
    /\ handler = "ready"
    /\ stream.fd # 0
    /\ op' = "-"
    /\ err' = NoErr
    /\ fds' = {d \in fds : d.fd # stream.fd}
    /\ stream' = NoStream
    /\ UNCHANGED <<clock, fs, cfgvars, handler, current_day, baseFilename, pc,
                   locals, emitted, snap, globbed, made, cyc, faults>>

\* ----------------------------------------------------------------- Next
Next ==
    \/ Tick
    \/ Restart
    \/ Crash
    \/ Construct
    \/ Rollover
    \/ RollClose
    \/ RollOpen
    \/ CompressBegin
    \/ CompressLoop
    \/ CompressCopy
    \/ CompressUnlink
    \/ AgeoffBegin
    \/ AgeoffLoop
    \/ Finish
    \/ Emit
    \/ Close

Spec == Init /\ [][Next]_vars

\* ------------------------------------------- the end-to-end example
\* no handler object has been constructed yet
NoHandler ==
    /\ fds = {}
    /\ handler = "none"
    /\ current_day = 0
    /\ baseFilename = <<>>
    /\ stream = NoStream
    /\ pc = "idle"
    /\ op = "-"
    /\ today = 0
    /\ pending = {}
    /\ file = <<>>
    /\ err = NoErr
    /\ emitted = 0
    /\ snap = NoSnap
    /\ made = {}
    /\ globbed = {}
    /\ cyc = 0

\* the directory of the example: the handler of 'app.log' wrote a file on
\* each of the days 5, 8 and 9, and the file of day 9 is already compressed
E2EDisk ==
    LET d5 == WriteFile(<<>>, FileNameFor(5), [ctime |-> 5, bytes |-> PlainBytes(<<5>>)])
        d8 == WriteFile(d5, FileNameFor(8), [ctime |-> 8, bytes |-> PlainBytes(<<8>>)])
    IN  WriteFile(d8, outfile(FileNameFor(9)),
                  [ctime |-> 9, bytes |-> Bz2Compress(PlainBytes(<<9>>))])

\* DailyLogFileHandler('app.log', compress_after_days=2, max_history_days=5)
\* is about to be constructed on day 10
InitE2E ==
    /\ clock = 10
    /\ logfile = << <<Tok("app"), Tok(".log")>> >>
    /\ compress_after_days = 2
    /\ max_history_days = 5
    /\ fs = E2EDisk
    /\ NoHandler
    /\ faults = 0

TickE2E ==
    /\ clock < 10 + MaxTicks
    /\ Midnight

NextE2E ==
    \/ TickE2E
    \/ Restart
    \/ Crash
    \/ Construct
    \/ Rollover
    \/ RollClose
    \/ RollOpen
    \/ CompressBegin
    \/ CompressLoop
    \/ CompressCopy
    \/ CompressUnlink
    \/ AgeoffBegin
    \/ AgeoffLoop
    \/ Finish
    \/ Emit
    \/ Close

SpecE2E == InitE2E /\ [][NextE2E]_vars

\* ------------------------------------- a longer run of one handler
\* what a failed sweep left behind: the log of day 1 was to be compressed
\* on day FirstDay, the copy stopped at once, and the unterminated .bz2
\* created that day lies beside the log
LeftoverDisk ==
    WriteFile(WriteFile(<<>>, FileNameFor(1), [ctime |-> 1, bytes |-> PlainBytes(<<1>>)]),
              outfile(FileNameFor(1)),
              [ctime |-> FirstDay, bytes |-> Bz2Truncated(PlainBytes(<<1>>), 0)])

\* DailyLogFileHandler('app.log', compress_after_days=1, max_history_days=1)
\* is used from the day after FirstDay on, for one day more than in Spec
InitLong ==
    /\ clock = FirstDay + 1
    /\ logfile = << <<Tok("app"), Tok(".log")>> >>
    /\ compress_after_days = 1
    /\ max_history_days = 1
    /\ fs \in {<<>>, LeftoverDisk}
    /\ NoHandler
    /\ faults = 0

TickLong ==
    /\ clock < MaxDay + 2
    /\ Midnight

NextLong ==
    \/ TickLong
    \/ Restart
    \/ Crash
    \/ Construct
    \/ Rollover
    \/ RollClose
    \/ RollOpen
    \/ CompressBegin
    \/ CompressLoop
    \/ CompressCopy
    \/ CompressUnlink
    \/ AgeoffBegin
    \/ AgeoffLoop
    \/ Finish
    \/ Emit
    \/ Close

SpecLong == InitLong /\ [][NextLong]_vars

\* ============================================================ properties
IsPlain(disk, p) == p \in DOMAIN disk /\ ~disk[p].bytes.bz
\* a file named {baseName}*{extension} in the directory of the log file
NamedLikeLog(p, tail) ==
    /\ parent(p) = parent(logfile)
    /\ Matches(Last(p), Last(_logfile_prefix), tail)
SweepCompressFailures == {"glob", "stat", "copy", "unlink"}
SweepAgeoffFailures == {"glob", "ageoff_stat", "ageoff_unlink"}
InSweepCompress == pc \in {"cmp_begin", "cmp_loop", "cmp_copy", "cmp_unlink"}

\* C1: every record is written to the file named for the clock's date at the
\* time of its emit (a rollover precedes the write when the date changed):
\* a plain file named for day d holds only records emitted on day d.
C1_RecordInFileOfItsDay ==
    \A d \in Days :
        IsPlain(fs, FileNameFor(d)) =>
            \A i \in 1..Len(fs[FileNameFor(d)].bytes.body) :
                fs[FileNameFor(d)].bytes.body[i] = d

\* C2: after a sweepCompress without I/O failure, for every compressAfterDays
\* N >= 0 (0 included): each plain file {baseName}*{extension} older than N
\* days is gone and has a complete compressed copy, each other one is unchanged.
C2_SweepCompressPost ==
    (pc = "age_begin" /\ compress_after_days # None) =>
        \A p \in DOMAIN snap.fs :
            (IsPlain(snap.fs, p) /\ NamedLikeLog(p, _logfile_suffix)) =>
                IF snap.day - snap.fs[p].ctime > compress_after_days
                THEN /\ p \notin DOMAIN fs
                     /\ outfile(p) \in DOMAIN fs
                     /\ IsBz2Complete(fs[outfile(p)].bytes)
                     /\ Bz2Decompress(fs[outfile(p)].bytes) = snap.fs[p].bytes
                ELSE p \in DOMAIN fs /\ fs[p] = snap.fs[p]

\* the candidates of sweepAgeoff as the specification names them: compressed
\* files when compressAfterDays is present, plain files when it is absent
AgeoffCandidate(disk, p) ==
    IF compress_after_days # None
    THEN p \in DOMAIN disk /\ NamedLikeLog(p, _logfile_suffix \o <<Tok(".bz2")>>)
    ELSE p \in DOMAIN disk /\ NamedLikeLog(p, _logfile_suffix)

\* C3: after a sweepAgeoff without I/O failure, for every maxHistoryDays
\* M >= 0 (0 included): no candidate older than M days remains, and every
\* other file remains as it was.
C3_SweepAgeoffPost ==
    (pc = "ret" /\ max_history_days # None) =>
        \A p \in DOMAIN snap.fs :
            IF AgeoffCandidate(snap.fs, p) /\ snap.day - snap.fs[p].ctime > max_history_days
            THEN p \notin DOMAIN fs
            ELSE p \in DOMAIN fs /\ fs[p] = snap.fs[p]

\* C4: no step of sweepCompress, failing or not, loses the content of a
\* plain file: after the step the file is still there with the same bytes,
\* or a complete compressed copy that decompresses to those bytes is.
C4_CompressKeepsContent ==
    [][InSweepCompress =>
        \A p \in DOMAIN fs :
            IsPlain(fs, p) =>
                \/ p \in DOMAIN fs' /\ fs'[p].bytes = fs[p].bytes
                \/ /\ outfile(p) \in DOMAIN fs'
                   /\ IsBz2Complete(fs'[outfile(p)].bytes)
                   /\ Bz2Decompress(fs'[outfile(p)].bytes) = fs[p].bytes]_vars
\* a copy failed part-way: the unterminated output lies beside its intact source
C4_Witness ==
    /\ err.kind = "copy"
    /\ IsPlain(fs, err.file)
    /\ outfile(err.file) \in DOMAIN fs
    /\ ~IsBz2Complete(fs[outfile(err.file)].bytes)

\* C5: a failure inside sweepCompress or sweepAgeoff never reaches the caller
\* of the constructor or of the rollover: no call ends by raising it.
C5_SweepFailureNotRaised ==
    err.kind \notin (SweepCompressFailures \cup SweepAgeoffFailures)

\* C6: a failure on one file does not abort the sweep: when the call has
\* ended after a failure on one file of sweepCompress, no other plain file
\* that the sweep's glob matches and that exceeded the threshold is left.
C6_SweepGoesOnAfterFailure ==
    err.kind \in {"copy", "unlink"} =>
        \A p \in Glob(CompressPattern) :
            (p # err.file /\ IsPlain(fs, p)) =>
                err.today - fs[p].ctime <= compress_after_days

\* C7: a call of _rollover on the day that is already _current_day changes
\* nothing, and no more than one close/open cycle is done for one day.
C7_RolloverIdempotent ==
    /\ [](cyc <= 1)
    /\ [][(Rollover /\ clock = current_day) =>
            /\ pc' = "idle"
            /\ UNCHANGED <<fs, fds, current_day, baseFilename, stream, cyc,
                           today, pending, file>>]_vars
\* a redundant call has returned after the day's rollover was done
C7_Witness ==
    /\ pc = "idle"
    /\ op = "rollover"
    /\ cyc = 1
    /\ clock = current_day

\* C8: at most one sink is open at any time.
C8_AtMostOneSink == Cardinality(fds) <= 1
\* a rollover has closed the old sink and opened the new one
C8_Witness ==
    /\ cyc = 1
    /\ Cardinality(fds) = 1
    /\ \E d \in fds : d.path = _file_name /\ d.fd = stream.fd

\* C9: between calls, _current_day, baseFilename and the open sink agree:
\* baseFilename is the name computed for _current_day and an open sink is
\* open on that file.
C9_DayNameSinkAgree ==
    (pc = "idle" /\ handler = "ready") =>
        /\ baseFilename = _file_name
        /\ \A d \in fds : d.fd = stream.fd => d.path = _file_name

\* C10: the files a handler opened as active on earlier days are found by the
\* globs of a later handler with the same configuration: every existing
\* file named for an earlier day is enumerated by sweepCompress, and every
\* existing compressed copy of one by sweepAgeoff.
C10_EarlierFilesEnumerated ==
    /\ (pc = "cmp_loop" /\ op = "init") =>
           \A d \in 1..(current_day - 1) :
               IsPlain(snap.fs, FileNameFor(d)) => FileNameFor(d) \in globbed
    /\ (pc = "age_loop" /\ op = "init" /\ Truthy(compress_after_days)) =>
           \A d \in 1..(current_day - 1) :
               outfile(FileNameFor(d)) \in DOMAIN snap.fs =>
                   outfile(FileNameFor(d)) \in globbed

\* C11: the end-to-end example.  DailyLogFileHandler('app.log', 2, 5) is
\* constructed on day 10 without failure beside app_<day 5>.log,
\* app_<day 8>.log and app_<day 9>.log.bz2: when __init__ returns, the log of
\* day 5 is compressed and its plain file gone, the log of day 8 is still
\* plain, the compressed log of day 9 is still there, and the file of day 10
\* is open.
C11_EndToEnd ==
    (pc = "ret" /\ op = "init" /\ clock = 10 /\ faults = 0) =>
        /\ FileNameFor(5) \notin DOMAIN fs
        /\ outfile(FileNameFor(5)) \in DOMAIN fs
        /\ IsBz2Complete(fs[outfile(FileNameFor(5))].bytes)
        /\ Bz2Decompress(fs[outfile(FileNameFor(5))].bytes) = PlainBytes(<<5>>)
        /\ IsPlain(fs, FileNameFor(8))
        /\ fs[FileNameFor(8)].bytes = PlainBytes(<<8>>)
        /\ outfile(FileNameFor(9)) \in DOMAIN fs
        /\ fs[outfile(FileNameFor(9))].bytes = Bz2Compress(PlainBytes(<<9>>))
        /\ FileNameFor(10) \in DOMAIN fs
        /\ ~stream.closed
        /\ \E d \in fds : d.fd = stream.fd /\ d.path = FileNameFor(10) /\ ~d.orphan
\* the construction of the example is about to return
C11_Witness ==
    /\ pc = "ret"
    /\ op = "init"
    /\ clock = 10
    /\ faults = 0
    /\ compress_after_days = 2
    /\ max_history_days = 5
    /\ outfile(FileNameFor(5)) \in DOMAIN fs
    /\ fs[outfile(FileNameFor(5))].ctime = 10

\* C12: with the daily date format the active file name is an injective
\* function of the date: for each logfile the run may start with, two
\* different days never get the same name, so the file a rollover opens is
\* never the one the handler had before.
C12_NameInjective ==
    /\ \A d1, d2 \in Days : d1 # d2 => FileNameFor(d1) # FileNameFor(d2)
    /\ [][(pc = "roll_open" /\ pc' = "cmp_begin") => baseFilename' # baseFilename]_vars
\* a rollover has just opened the file of the new day beside the file of
\* the day the handler was constructed
C12_Witness ==
    /\ pc = "cmp_begin"
    /\ op = "rollover"
    /\ clock > FirstDay
    /\ baseFilename = FileNameFor(clock)
    /\ FileNameFor(FirstDay) \in DOMAIN fs
    /\ \E d \in fds : d.fd = stream.fd /\ d.path = baseFilename

\* C13: a failure to close the old sink does not stop the rollover: when the
\* call has ended with that failure, the file of the new day is open and is
\* the active file, and the handler does not hold the previous day's name.
C13_RolloverSurvivesCloseFailure ==
    (pc = "idle" /\ err.kind = "close") =>
        /\ baseFilename = _file_name
        /\ ~stream.closed
        /\ \E d \in fds : d.fd = stream.fd /\ d.path = _file_name

InSweepAgeoff == pc \in {"age_begin", "age_loop"}
IsCompressedName(p) == suffix(p) = <<Tok(".bz2")>>
\* C15: what a sweep may touch.  While sweepAgeoff runs, no plain file is
\* deleted if compressAfterDays is present (0 included) and no compressed
\* file is deleted if it is absent; while sweepCompress runs, no file that
\* is already compressed is changed or deleted; and the sweep of an absent
\* threshold changes no file.
C15_SweepFrame ==
    [][/\ (InSweepAgeoff /\ compress_after_days # None) =>
              \A p \in DOMAIN fs : ~IsCompressedName(p) => p \in DOMAIN fs'
       /\ (InSweepAgeoff /\ compress_after_days = None) =>
              \A p \in DOMAIN fs : IsCompressedName(p) => p \in DOMAIN fs'
       /\ InSweepCompress =>
              \A p \in DOMAIN fs :
                  IsCompressedName(p) => p \in DOMAIN fs' /\ fs'[p] = fs[p]
       /\ (InSweepCompress /\ compress_after_days = None) => fs' = fs
       /\ (InSweepAgeoff /\ max_history_days = None) => fs' = fs]_vars

\* C16: no sweep compresses or deletes the active file, whatever the two
\* thresholds are: no file is unlinked while a sink is open on it, and the
\* file sweepCompress is copying or about to unlink is never the file of an
\* open sink.
C16_ActiveFileUntouched ==
    /\ \A d \in fds : ~d.orphan
    /\ pc \in {"cmp_copy", "cmp_unlink"} => \A d \in fds : d.path # file
\* sweepCompress met the active file in its glob and passed it over
C16_Witness ==
    /\ pc = "cmp_loop"
    /\ file = baseFilename
    /\ IsPlain(fs, file)
    /\ ~stream.closed
    /\ \E d \in fds : d.fd = stream.fd /\ d.path = file

\* C17: between calls (after __init__ and after any _rollover, ended by a
\* failure or not) no log is on disk both as a plain file and as that
\* file's .bz2; the model starts from a directory where none is.
C17_NeverBothForms ==
    pc = "idle" =>
        \A p \in DOMAIN fs : ~IsCompressedName(p) => outfile(p) \notin DOMAIN fs

\* C18: sweepAgeoff counts the age of a compressed file from the day the
\* compressed copy was made: a .bz2 that sweepCompress has written in the
\* running __init__ or _rollover is not deleted by the sweepAgeoff of that
\* same call.
C18_AgeFromCompression ==
    [][InSweepAgeoff =>
        \A p \in made : p \in DOMAIN fs => p \in DOMAIN fs']_vars

\* a record emitted on the clock's day has reached a file
EmittedToday ==
    \E p \in DOMAIN fs :
        /\ ~fs[p].bytes.bz
        /\ \E i \in 1..Len(fs[p].bytes.body) : fs[p].bytes.body[i] = clock
\* C19: bounded history.  With both thresholds positive and no I/O failure,
\* a day on which a record is emitted is a day on which the handler rolls
\* over and sweeps: once the record of the day is written, no file that was
\* the active file more than compressAfterDays days ago is still plain, and
\* no compressed copy of one is older than maxHistoryDays days.
C19_BoundedHistory ==
    (/\ pc = "idle"
     /\ handler = "ready"
     /\ faults = 0
     /\ compress_after_days > 0
     /\ max_history_days > 0
     /\ EmittedToday) =>
        \A d \in 1..clock :
            /\ clock - d > compress_after_days => ~IsPlain(fs, FileNameFor(d))
            /\ outfile(FileNameFor(d)) \in DOMAIN fs =>
                   clock - fs[outfile(FileNameFor(d))].ctime <= max_history_days
====
